---- MODULE Spec2Model ----
(***************************************************************************)
(* Model of make_ps_dict.py: conversion of a CMUdict pronunciation         *)
(* dictionary to PocketSphinx format (stress stripping, per-word           *)
(* deduplication, sorted and renumbered output).                           *)
(*                                                                         *)
(* A Python str is a sequence of one-character strings, so that regular    *)
(* expressions, strip(), split() and join() are computed character by      *)
(* character.                                                              *)
(***************************************************************************)
EXTENDS Integers, Sequences, FiniteSets, TLC

VARIABLES
    \* strip_stress, called on its own
    phoneme,             \* the argument of the first call
    results,             \* the values returned by successive calls
    \* convert_dict
    input,               \* every line of the input stream (history)
    infile,              \* the lines the for loop has not read yet
    word_pronunciations, \* base word -> list of unique pronunciations
    pc,                  \* "idle", "read", "write", "done", "raised"
    sorted_words,        \* keys the outer output loop has not finished
    idx,                 \* enumerate() index in the current word's list
    outfile,             \* the lines printed to the output stream
    emitted,             \* (base word, idx) of every printed line (history)
    entries_written,
    returned,            \* convert_dict's return value, -1 before it returns
    \* main
    args,                \* argparse result: output given or not, verbose
    input_path,          \* "ok", "missing", "denied": what open(args.input) meets
    input_content,       \* the lines of the input file when it can be read
    output_path,         \* "untouched", "denied", "opened": the -o destination
    main_pc,             \* "none", "start", "open_input", "open_output",
                         \* "convert", "exited"
    input_opened,
    stderr,
    exit_status          \* -1 while running

strip_vars == <<phoneme, results>>
convert_vars == <<input, infile, word_pronunciations, pc, sorted_words, idx,
                  outfile, emitted, entries_written, returned>>
main_vars == <<args, input_path, input_content, output_path, main_pc,
               input_opened, stderr, exit_status>>
vars == <<strip_vars, convert_vars, main_vars>>

----------------------------------------------------------------------------
(* Bounds *)

\* longest string handed to strip_stress on its own
MaxTokLen == 3
\* most lines in the input stream of convert_dict
MaxLines == 3
\* most lines in the input file of a whole run of main
MaxMainLines == 2

----------------------------------------------------------------------------
(* Characters and strings *)

\* code points of the characters the model uses (Python compares str by them)
Ord(c) ==
    CASE c = "\t" -> 9  [] c = "\n" -> 10 [] c = " " -> 32 [] c = "#" -> 35
      [] c = "(" -> 40  [] c = ")" -> 41  [] c = "," -> 44
      [] c = "0" -> 48  [] c = "1" -> 49  [] c = "2" -> 50 [] c = "3" -> 51
      [] c = "4" -> 52  [] c = "5" -> 53  [] c = "6" -> 54 [] c = "7" -> 55
      [] c = "8" -> 56  [] c = "9" -> 57  [] c = ";" -> 59
      [] c = "A" -> 65  [] c = "B" -> 66  [] c = "E" -> 69 [] c = "T" -> 84
      [] c = "a" -> 97  [] c = "b" -> 98  [] c = "c" -> 99

\* what str.strip() and str.split() treat as whitespace
Whitespace == {" ", "\t", "\n"}

\* what \d matches
Digits == {"0", "1", "2", "3", "4", "5", "6", "7", "8", "9"}

\* what [012] matches
StressDigits == {"0", "1", "2"}

SetMin(S) == CHOOSE x \in S : \A y \in S : x <= y
SetMax(S) == CHOOSE x \in S : \A y \in S : y <= x

\* the elements of a set of integers in ascending order
Ascending(S) ==
    [k \in 1..Cardinality(S) |->
        CHOOSE x \in S : Cardinality({y \in S : y < x}) = k - 1]

\* s with the characters at positions i..j removed
Remove(s, i, j) == SubSeq(s, 1, i - 1) \o SubSeq(s, j + 1, Len(s))

\* the positions p such that the regex anchor $ matches right after s[p]:
\* the end of the string, and just before a newline that ends the string
DollarAfter(s) ==
    {Len(s)} \cup (IF Len(s) > 0 /\ s[Len(s)] = "\n" THEN {Len(s) - 1} ELSE {})

\* str < str
LexLess(s, t) ==
    \E k \in 0..Len(s) :
        /\ k <= Len(t)
        /\ \A i \in 1..k : s[i] = t[i]
        /\ \/ k = Len(s) /\ k < Len(t)
           \/ k < Len(s) /\ k < Len(t) /\ Ord(s[k + 1]) < Ord(t[k + 1])

\* str(n) for n >= 0
RECURSIVE Str(_)
Str(n) ==
    LET d == <<"0", "1", "2", "3", "4", "5", "6", "7", "8", "9">>[(n % 10) + 1]
    IN  IF n < 10 THEN <<d>> ELSE Str(n \div 10) \o <<d>>

\* line.strip()
Strip(s) ==
    LET keep == {i \in 1..Len(s) : s[i] \notin Whitespace}
    IN  IF keep = {} THEN <<>> ELSE SubSeq(s, SetMin(keep), SetMax(keep))

\* line.startswith(prefix)
StartsWith(s, prefix) ==
    Len(prefix) <= Len(s) /\ SubSeq(s, 1, Len(prefix)) = prefix

\* line.split('#')[0]
BeforeHash(s) ==
    LET at == {i \in 1..Len(s) : s[i] = "#"}
    IN  IF at = {} THEN s ELSE SubSeq(s, 1, SetMin(at) - 1)

\* line.split(): the maximal runs of non-whitespace, in order
Split(s) ==
    LET starts == {i \in 1..Len(s) :
                     s[i] \notin Whitespace /\ (i = 1 \/ s[i - 1] \in Whitespace)}
        stop(i) == SetMin({j \in i..Len(s) :
                     j = Len(s) \/ s[j + 1] \in Whitespace})
        order == Ascending(starts)
    IN  [k \in 1..Len(order) |-> SubSeq(s, order[k], stop(order[k]))]

\* ' '.join(tokens)
RECURSIVE Join(_)
Join(tokens) ==
    IF tokens = <<>> THEN <<>>
    ELSE IF Len(tokens) = 1 THEN tokens[1]
    ELSE tokens[1] \o <<" ">> \o Join(Tail(tokens))

----------------------------------------------------------------------------
(* strip_stress *)

\* a plausible slip: every trailing stress digit is removed, not only one
RECURSIVE strip_stress_all(_)
strip_stress_all(p) ==
    IF Len(p) > 0 /\ p[Len(p)] \in StressDigits
    THEN strip_stress_all(SubSeq(p, 1, Len(p) - 1))
    ELSE p

\* a plausible slip: \d in place of [012]
strip_stress_any_digit(p) ==
    LET at == {i \in DollarAfter(p) : i >= 1 /\ p[i] \in Digits}
    IN  IF at = {} THEN p ELSE Remove(p, SetMin(at), SetMin(at))

\* re.sub(r'[012]$', '', phoneme)
strip_stress(p) ==
    LET at == {i \in DollarAfter(p) : i >= 1 /\ p[i] \in StressDigits}
    IN  IF at = {} THEN p ELSE Remove(p, SetMin(at), SetMin(at))

----------------------------------------------------------------------------
(* parse_cmudict_line *)

\* the return value None
None == <<>>

\* re.sub(r'\(\d+\)$', '', word_with_variant): the leftmost "(digits)" that
\* ends where $ matches is removed
StripVariant(w) ==
    LET found == {m \in (1..Len(w)) \X DollarAfter(w) :
                    /\ w[m[1]] = "(" /\ w[m[2]] = ")"
                    /\ m[2] >= m[1] + 2
                    /\ \A k \in (m[1] + 1)..(m[2] - 1) : w[k] \in Digits}
        first == SetMin({m[1] : m \in found})
        match == CHOOSE m \in found : m[1] = first
    IN  IF found = {} THEN w ELSE Remove(w, match[1], match[2])

\* a plausible slip: the check for fewer than 2 tokens is missing (a line
\* that holds no token is still skipped: parts[0] would not exist)
parse_cmudict_line_no_count(line) ==
    LET stripped == Strip(line)
        uncommented == IF \E i \in 1..Len(stripped) : stripped[i] = "#"
                       THEN Strip(BeforeHash(stripped))
                       ELSE stripped
        parts == Split(uncommented)
    IN  IF stripped = <<>> \/ StartsWith(stripped, <<";", ";", ";">>) THEN None
        ELSE IF Len(parts) < 1 THEN None
        ELSE <<StripVariant(parts[1]), Tail(parts)>>

\* parse_cmudict_line(line): None, or <<base_word, phonemes>>
parse_cmudict_line(line) ==
    LET stripped == Strip(line)
        uncommented == IF \E i \in 1..Len(stripped) : stripped[i] = "#"
                       THEN Strip(BeforeHash(stripped))
                       ELSE stripped
        parts == Split(uncommented)
    IN  IF stripped = <<>> \/ StartsWith(stripped, <<";", ";", ";">>) THEN None
        ELSE IF Len(parts) < 2 THEN None
        ELSE <<StripVariant(parts[1]), Tail(parts)>>

----------------------------------------------------------------------------
(* convert_dict *)

\* pronunciation in word_pronunciations[base_word]
Contains(list, x) == \E i \in 1..Len(list) : list[i] = x

\* ' '.join([strip_stress(p) for p in phonemes])
Pronunciation(phonemes) ==
    Join([i \in 1..Len(phonemes) |-> strip_stress(phonemes[i])])

\* a plausible slip: the membership test is missing
RecordAlways(map, base_word, pronunciation) ==
    IF base_word \in DOMAIN map
    THEN [map EXCEPT ![base_word] = Append(@, pronunciation)]
    ELSE map @@ (base_word :> <<pronunciation>>)

\* a plausible slip: a new pronunciation goes to the front of the list
RecordInFront(map, base_word, pronunciation) ==
    IF base_word \in DOMAIN map
    THEN IF Contains(map[base_word], pronunciation)
         THEN map
         ELSE [map EXCEPT ![base_word] = <<pronunciation>> \o @]
    ELSE map @@ (base_word :> <<pronunciation>>)

\* if pronunciation not in word_pronunciations[base_word]: append it
\* (the defaultdict makes the empty list of a word seen for the first time)
Record(map, base_word, pronunciation) ==
    IF base_word \in DOMAIN map
    THEN IF Contains(map[base_word], pronunciation)
         THEN map
         ELSE [map EXCEPT ![base_word] = Append(@, pronunciation)]
    ELSE map @@ (base_word :> <<pronunciation>>)

\* a plausible slip: descending order
SortedDescending(S) ==
    [k \in 1..Cardinality(S) |->
        CHOOSE w \in S : Cardinality({v \in S : LexLess(w, v)}) = k - 1]

\* sorted(word_pronunciations)
Sorted(S) ==
    [k \in 1..Cardinality(S) |->
        CHOOSE w \in S : Cardinality({v \in S : LexLess(v, w)}) = k - 1]

\* a plausible slip: the suffix is the index plus 2
WordVariantPlusTwo(base_word, i) ==
    IF i = 0 THEN base_word
    ELSE base_word \o <<"(">> \o Str(i + 2) \o <<")">>

\* base_word if idx == 0 else f"{base_word}({idx + 1})"
WordVariant(base_word, i) ==
    IF i = 0 THEN base_word
    ELSE base_word \o <<"(">> \o Str(i + 1) \o <<")">>

\* what print(f"{word_variant} {pronunciation}", file=outfile) writes
OutputLine(word_variant, pronunciation) ==
    word_variant \o <<" ">> \o pronunciation \o <<"\n">>

\* one iteration of "for line in infile"
ReadLine ==
    /\ pc = "read"
    /\ infile # <<>>
    /\ LET result == parse_cmudict_line(Head(infile))
       IN  word_pronunciations' =
               IF result = None THEN word_pronunciations
               ELSE Record(word_pronunciations, result[1],
                           Pronunciation(result[2]))
    /\ infile' = Tail(infile)
    /\ UNCHANGED <<input, pc, sorted_words, idx, outfile, emitted,
                   entries_written, returned>>
    /\ UNCHANGED <<strip_vars, main_vars>>

\* a plausible slip: the output loop starts before the input is exhausted
BeginWriteEarly ==
    /\ pc = "read"
    /\ pc' = "write"
    /\ sorted_words' = Sorted(DOMAIN word_pronunciations)
    /\ idx' = 0
    /\ entries_written' = 0
    /\ UNCHANGED <<input, infile, word_pronunciations, outfile, emitted,
                   returned>>
    /\ UNCHANGED <<strip_vars, main_vars>>

\* the input is exhausted: entries_written = 0 and the keys are sorted
BeginWrite ==
    /\ pc = "read"
    /\ infile = <<>>
    /\ pc' = "write"
    /\ sorted_words' = Sorted(DOMAIN word_pronunciations)
    /\ idx' = 0
    /\ entries_written' = 0
    /\ UNCHANGED <<input, infile, word_pronunciations, outfile, emitted,
                   returned>>
    /\ UNCHANGED <<strip_vars, main_vars>>

\* one iteration of "for idx, pronunciation in enumerate(pronunciations)"
WriteLine ==
    /\ pc = "write"
    /\ sorted_words # <<>>
    /\ LET base_word == Head(sorted_words)
           pronunciations == word_pronunciations[base_word]
           pronunciation == pronunciations[idx + 1]
       IN  /\ outfile' = Append(outfile,
                   OutputLine(WordVariant(base_word, idx), pronunciation))
           /\ emitted' = Append(emitted, [base_word |-> base_word, idx |-> idx])
           /\ IF idx + 1 < Len(pronunciations)
              THEN idx' = idx + 1 /\ sorted_words' = sorted_words
              ELSE idx' = 0 /\ sorted_words' = Tail(sorted_words)
    /\ entries_written' = entries_written + 1
    /\ UNCHANGED <<input, infile, word_pronunciations, pc, returned>>
    /\ UNCHANGED <<strip_vars, main_vars>>

\* return entries_written
Return ==
    /\ pc = "write"
    /\ sorted_words = <<>>
    /\ pc' = "done"
    /\ returned' = entries_written
    /\ UNCHANGED <<input, infile, word_pronunciations, sorted_words, idx,
                   outfile, emitted, entries_written>>
    /\ UNCHANGED <<strip_vars, main_vars>>

----------------------------------------------------------------------------
(* main *)

\* print(..., file=sys.stderr)
Log(message) == Append(stderr, message)

\* if args.verbose: print(f"Reading from: {args.input}", file=sys.stderr)
MainStart ==
    /\ main_pc = "start"
    /\ stderr' = IF args.verbose THEN Log("Reading from") ELSE stderr
    /\ main_pc' = "open_input"
    /\ UNCHANGED <<args, input_path, input_content, output_path, input_opened,
                   exit_status>>
    /\ UNCHANGED <<strip_vars, convert_vars>>

\* a plausible slip: the output is opened before the input
MainOpenOutputFirst ==
    /\ main_pc = "open_input"
    /\ output_path' = IF args.output /\ output_path = "untouched"
                      THEN "opened" ELSE output_path
    /\ \/ /\ input_path = "missing"
          /\ stderr' = Log("Error: Input file not found")
          /\ exit_status' = 1
          /\ main_pc' = "exited"
          /\ UNCHANGED <<input_opened, input, infile>>
       \/ /\ input_path = "denied"
          /\ stderr' = Log("Error: e")
          /\ exit_status' = 1
          /\ main_pc' = "exited"
          /\ UNCHANGED <<input_opened, input, infile>>
       \/ /\ input_path = "ok"
          /\ input_opened' = TRUE
          /\ input' = input_content
          /\ infile' = input_content
          /\ main_pc' = "open_output"
          /\ UNCHANGED <<stderr, exit_status>>
    /\ UNCHANGED <<args, input_path, input_content>>
    /\ UNCHANGED <<strip_vars, word_pronunciations, pc, sorted_words, idx,
                   outfile, emitted, entries_written, returned>>

\* with open(args.input, 'r', encoding='latin-1') as infile, and the except
\* clauses that an exception of open() reaches
MainOpenInput ==
    /\ main_pc = "open_input"
    /\ \/ /\ input_path = "missing"
          /\ stderr' = Log("Error: Input file not found")
          /\ exit_status' = 1
          /\ main_pc' = "exited"
          /\ UNCHANGED <<input_opened, input, infile>>
       \/ /\ input_path = "denied"
          /\ stderr' = Log("Error: e")
          /\ exit_status' = 1
          /\ main_pc' = "exited"
          /\ UNCHANGED <<input_opened, input, infile>>
       \/ /\ input_path = "ok"
          /\ input_opened' = TRUE
          /\ input' = input_content
          /\ infile' = input_content
          /\ main_pc' = "open_output"
          /\ UNCHANGED <<stderr, exit_status>>
    /\ UNCHANGED <<args, input_path, input_content, output_path>>
    /\ UNCHANGED <<strip_vars, word_pronunciations, pc, sorted_words, idx,
                   outfile, emitted, entries_written, returned>>

\* if args.output: with open(args.output, 'w', encoding='utf-8') as outfile;
\* else sys.stdout; then convert_dict is called
MainOpenOutput ==
    /\ main_pc = "open_output"
    /\ \/ /\ args.output
          /\ output_path = "denied"
          /\ stderr' = Log("Error: e")
          /\ exit_status' = 1
          /\ main_pc' = "exited"
          /\ UNCHANGED <<output_path, pc>>
       \/ /\ args.output
          /\ output_path = "untouched"
          /\ output_path' = "opened"
          /\ main_pc' = "convert"
          /\ pc' = "read"
          /\ UNCHANGED <<stderr, exit_status>>
       \/ /\ ~args.output
          /\ main_pc' = "convert"
          /\ pc' = "read"
          /\ UNCHANGED <<output_path, stderr, exit_status>>
    /\ UNCHANGED <<args, input_path, input_content, input_opened>>
    /\ UNCHANGED <<strip_vars, input, infile, word_pronunciations, sorted_words,
                   idx, outfile, emitted, entries_written, returned>>

\* an IOError raised by a read of infile or a print to outfile
MainIOError ==
    /\ main_pc = "convert"
    /\ \/ pc = "read" /\ infile # <<>>
       \/ pc = "write" /\ sorted_words # <<>>
    /\ pc' = "raised"
    /\ stderr' = Log("Error: e")
    /\ exit_status' = 1
    /\ main_pc' = "exited"
    /\ UNCHANGED <<args, input_path, input_content, output_path, input_opened>>
    /\ UNCHANGED <<strip_vars, input, infile, word_pronunciations, sorted_words,
                   idx, outfile, emitted, entries_written, returned>>

\* convert_dict has returned: the files are closed,
\* if args.verbose: print(f"Successfully wrote {count:,} entries")
MainFinish ==
    /\ main_pc = "convert"
    /\ pc = "done"
    /\ stderr' = IF args.verbose THEN Log("Successfully wrote") ELSE stderr
    /\ exit_status' = 0
    /\ main_pc' = "exited"
    /\ UNCHANGED <<args, input_path, input_content, output_path, input_opened>>
    /\ UNCHANGED <<strip_vars, convert_vars>>

----------------------------------------------------------------------------
(* Inputs *)

\* every string of at most MaxTokLen characters over these characters
TokenChars == {"A", "0", "1", "2", "3", "\n"}
Strings == UNION {[1..n -> TokenChars] : n \in 0..MaxTokLen}

\* lines of a dictionary: entries with and without variant markers and stress
\* digits, entries equal after stress stripping, a word that keeps a marker
\* after one is removed, separators of several kinds, an inline comment, and
\* the three kinds of line that are skipped
InputLines ==
    { <<"a", " ", "A", "1", "\n">>,
      <<"a", "(", "2", ")", " ", "A", "0", "\n">>,
      <<"a", "(", "2", ")", " ", "E", "1", " ", "T", "\n">>,
      <<" ", "a", "(", "3", ")", " ", "T", " ", " ", "E", "2", "\n">>,
      <<"a", "(", "2", ")", "(", "3", ")", " ", "T", "\n">>,
      <<"b", "\t", "T", "\n">>,
      <<"B", " ", "A", "2", " ", "#", " ", "c", "\n">>,
      <<";", ";", ";", " ", "c", " ", "a", "\n">>,
      <<" ", "\t", "\n">>,
      <<"a", " ", "#", " ", "T", "\n">> }

Files(n) == UNION {[1..k -> InputLines] : k \in 0..n}

----------------------------------------------------------------------------
(* Specifications *)

StripIdle == phoneme = <<>> /\ results = <<>>

ConvertIdle ==
    /\ input = <<>> /\ infile = <<>>
    /\ word_pronunciations = <<>>
    /\ pc = "idle"
    /\ sorted_words = <<>> /\ idx = 0
    /\ outfile = <<>> /\ emitted = <<>>
    /\ entries_written = 0
    /\ returned = -1

MainIdle ==
    /\ args = [output |-> FALSE, verbose |-> FALSE]
    /\ input_path = "ok" /\ input_content = <<>>
    /\ output_path = "untouched"
    /\ main_pc = "none"
    /\ input_opened = FALSE
    /\ stderr = <<>>
    /\ exit_status = -1

\* strip_stress applied to a string, then to its own result
Apply ==
    /\ Len(results) < 2
    /\ results' = Append(results,
                    strip_stress(IF results = <<>> THEN phoneme
                                 ELSE results[Len(results)]))
    /\ UNCHANGED <<phoneme, convert_vars, main_vars>>

StripInit ==
    /\ phoneme \in Strings
    /\ results = <<>>
    /\ ConvertIdle
    /\ MainIdle

StripNext == Apply

StripSpec == StripInit /\ [][StripNext]_vars

\* convert_dict called on an input stream and an empty output stream
Init ==
    /\ StripIdle
    /\ input \in Files(MaxLines)
    /\ infile = input
    /\ word_pronunciations = <<>>
    /\ pc = "read"
    /\ sorted_words = <<>> /\ idx = 0
    /\ outfile = <<>> /\ emitted = <<>>
    /\ entries_written = 0
    /\ returned = -1
    /\ MainIdle

Next ==
    \/ ReadLine
    \/ BeginWrite
    \/ WriteLine
    \/ Return

Spec == Init /\ [][Next]_vars

\* a run of the command: the arguments, and the files it meets
MainInit ==
    /\ StripIdle
    /\ ConvertIdle
    /\ args \in [output : BOOLEAN, verbose : BOOLEAN]
    /\ input_path \in {"ok", "missing", "denied"}
    /\ input_content \in Files(MaxMainLines)
    /\ input_path # "ok" => input_content = <<>>
    /\ output_path \in {"untouched", "denied"}
    /\ ~args.output => output_path = "untouched"
    /\ main_pc = "start"
    /\ input_opened = FALSE
    /\ stderr = <<>>
    /\ exit_status = -1

MainNext ==
    \/ MainStart
    \/ MainOpenInput
    \/ MainOpenOutput
    \/ ReadLine
    \/ BeginWrite
    \/ WriteLine
    \/ Return
    \/ MainIOError
    \/ MainFinish

MainSpec == MainInit /\ [][MainNext]_vars

----------------------------------------------------------------------------
(* What the properties speak of *)

\* a phoneme token: split() never yields whitespace inside a token
IsToken(p) == \A i \in 1..Len(p) : p[i] \notin Whitespace

\* the input line i as an entry: its base word, its normalized pronunciation
IsEntry(i) == parse_cmudict_line(input[i]) # None
BaseOf(i) == parse_cmudict_line(input[i])[1]
PronIn(i) == Pronunciation(parse_cmudict_line(input[i])[2])
EntryLines == {i \in 1..Len(input) : IsEntry(i)}
InputWords == {BaseOf(i) : i \in EntryLines}

\* the input lines where a pronunciation of base word w occurs for the first time
FirstSeenAt(w) ==
    {i \in EntryLines :
        /\ BaseOf(i) = w
        /\ \A h \in EntryLines : h < i => ~(BaseOf(h) = w /\ PronIn(h) = PronIn(i))}

\* an output line read back: the headword token before the first space, and
\* the pronunciation between that space and the line terminator
FirstSpace(l) == SetMin({i \in 1..Len(l) : l[i] = " "})
HeadwordOf(l) == SubSeq(l, 1, FirstSpace(l) - 1)
PronOf(l) == SubSeq(l, FirstSpace(l) + 1, Len(l) - 1)

\* the output lines written for base word w
LinesOf(w) == {j \in 1..Len(outfile) : emitted[j].base_word = w}

\* a line that the specification says is skipped
IsSkipLine(line) ==
    \/ \A i \in 1..Len(line) : line[i] \in Whitespace
    \/ StartsWith(Strip(line), <<";", ";", ";">>)
    \/ Len(Split(BeforeHash(line))) < 2

\* the whole of the reading loop and of the writing loop, as functions
RECURSIVE Aggregate(_, _)
Aggregate(map, lines) ==
    IF lines = <<>> THEN map
    ELSE LET result == parse_cmudict_line(Head(lines))
         IN  Aggregate(IF result = None THEN map
                       ELSE Record(map, result[1], Pronunciation(result[2])),
                       Tail(lines))

RECURSIVE EmitWords(_, _)
EmitWords(map, words) ==
    IF words = <<>> THEN <<>>
    ELSE [i \in 1..Len(map[Head(words)]) |->
              OutputLine(WordVariant(Head(words), i - 1), map[Head(words)][i])]
         \o EmitWords(map, Tail(words))

Emit(map) == EmitWords(map, Sorted(DOMAIN map))

----------------------------------------------------------------------------
(* Properties of convert_dict, checked under Spec *)

\* C1. Deduplication: no base word's pronunciation list holds the same
\* string twice, no two output lines of one base word carry the same
\* pronunciation, and two input entries of one base word that are equal
\* after stress stripping yield exactly one output line.
C1_Deduplication ==
    /\ \A w \in DOMAIN word_pronunciations :
          \A i, j \in 1..Len(word_pronunciations[w]) :
              i # j => word_pronunciations[w][i] # word_pronunciations[w][j]
    /\ \A i, j \in 1..Len(outfile) :
          (i # j /\ emitted[i].base_word = emitted[j].base_word)
              => PronOf(outfile[i]) # PronOf(outfile[j])
    /\ pc = "done" =>
          \A i, j \in EntryLines :
              (i < j /\ BaseOf(i) = BaseOf(j) /\ PronIn(i) = PronIn(j))
                  => Cardinality({k \in LinesOf(BaseOf(i)) :
                                     PronOf(outfile[k]) = PronIn(i)}) = 1

\* the run is over and the input held two entries of one word that differ
\* only in stress
C1_Witness ==
    /\ pc = "done"
    /\ \E i, j \in EntryLines :
          /\ i < j /\ BaseOf(i) = BaseOf(j) /\ PronIn(i) = PronIn(j)
          /\ parse_cmudict_line(input[i])[2] # parse_cmudict_line(input[j])[2]

\* C2. Variant numbering: a base word with k distinct normalized
\* pronunciations in the input gets exactly k consecutive output lines, headed
\* by the bare word, then word(2), ..., word(k), carrying the pronunciations in
\* the order of their first occurrence in the input, whatever variant markers
\* the input carried.
C2_VariantNumbering ==
    pc = "done" =>
        /\ \A j \in 1..Len(outfile) : emitted[j].base_word \in InputWords
        /\ \A w \in InputWords :
              LET first == Ascending(FirstSeenAt(w))
                  at == Ascending(LinesOf(w))
              IN  /\ Len(at) = Len(first)
                  /\ \A n \in 1..Len(at) :
                        /\ n > 1 => at[n] = at[n - 1] + 1
                        /\ HeadwordOf(outfile[at[n]]) =
                              (IF n = 1 THEN w
                               ELSE w \o <<"(">> \o Str(n) \o <<")">>)
                        /\ PronOf(outfile[at[n]]) = PronIn(first[n])

\* the run is over, a word had three distinct pronunciations, and the first
\* entry of that word carried a variant marker in the input
C2_Witness ==
    /\ pc = "done"
    /\ \E w \in InputWords :
          /\ Cardinality(FirstSeenAt(w)) = 3
          /\ Split(input[SetMin(FirstSeenAt(w))])[1] # w

\* C3. Sorted output: the base words of the output lines never decrease in
\* code point order, the lines of one base word are contiguous, and the words
\* written are those of the input, so that their order does not depend on the
\* order of the input.
C3_SortedOutput ==
    /\ \A i, j \in 1..Len(emitted) :
          i < j => ~LexLess(emitted[j].base_word, emitted[i].base_word)
    /\ \A i, j, k \in 1..Len(emitted) :
          (i < j /\ j < k /\ emitted[i].base_word = emitted[k].base_word)
              => emitted[j].base_word = emitted[i].base_word
    /\ pc = "done" => {emitted[j].base_word : j \in 1..Len(emitted)} = InputWords

\* the run is over and the input held a word before a smaller one
C3_Witness ==
    /\ pc = "done"
    /\ \E i, j \in EntryLines : i < j /\ LexLess(BaseOf(j), BaseOf(i))

\* C4. Skipped lines have no effect: reading a blank line, a ;;; comment or a
\* line with fewer than 2 tokens before its first # leaves the mapping, the
\* output and the count as they are and the run goes on; and the output and
\* the returned count are those of the input without such lines.
C4_SkippedLines ==
    /\ [][(pc = "read" /\ infile # <<>> /\ IsSkipLine(Head(infile)))
            => /\ word_pronunciations' = word_pronunciations
               /\ outfile' = outfile
               /\ entries_written' = entries_written
               /\ pc' = "read"
               /\ infile' = Tail(infile)]_vars
    /\ [](pc = "done" =>
            LET kept == SelectSeq(input, LAMBDA l : ~IsSkipLine(l))
            IN  /\ outfile = Emit(Aggregate(<<>>, kept))
                /\ returned = Len(Emit(Aggregate(<<>>, kept))))

\* the run is over, it wrote something, and a skipped line stood between two
\* entries
C4_Witness ==
    /\ pc = "done"
    /\ outfile # <<>>
    /\ \E i, j, k \in 1..Len(input) :
          /\ i < j /\ j < k
          /\ IsEntry(i) /\ IsSkipLine(input[j]) /\ IsEntry(k)

\* C7 as stated. The pronunciation at zero-based index i >= 1 is written
\* under the base word with the suffix number i + 2.
C7_SuffixIsIndexPlusTwo ==
    \A j \in 1..Len(outfile) :
        emitted[j].idx >= 1 =>
            HeadwordOf(outfile[j]) =
                emitted[j].base_word \o <<"(">> \o Str(emitted[j].idx + 2) \o <<")">>

\* C7 as amended. The pronunciation at zero-based index i >= 1 is written
\* under the base word with the suffix number i + 1.
C7_SuffixIsIndexPlusOne ==
    \A j \in 1..Len(outfile) :
        emitted[j].idx >= 1 =>
            HeadwordOf(outfile[j]) =
                emitted[j].base_word \o <<"(">> \o Str(emitted[j].idx + 1) \o <<")">>

\* lines have been written at the indices 1 and 2 of one word
C7_Witness ==
    \E j \in 1..Len(outfile) : j > 1 /\ emitted[j].idx = 2 /\ emitted[j - 1].idx = 1

\* C9. Two-phase lifecycle: no output line is written while input lines
\* remain, the mapping does not change once a line has been written, and at
\* the end every stored pronunciation has been written exactly once.
C9_TwoPhase ==
    /\ [][/\ outfile' # outfile => infile = <<>>
          /\ outfile # <<>> => word_pronunciations' = word_pronunciations]_vars
    /\ [](pc = "done" =>
            /\ \A w \in DOMAIN word_pronunciations :
                  \A i \in 1..Len(word_pronunciations[w]) :
                      /\ Cardinality({j \in LinesOf(w) : emitted[j].idx = i - 1}) = 1
                      /\ \A j \in LinesOf(w) :
                            emitted[j].idx = i - 1
                                => PronOf(outfile[j]) = word_pronunciations[w][i]
            /\ \A j \in 1..Len(outfile) :
                  /\ emitted[j].base_word \in DOMAIN word_pronunciations
                  /\ emitted[j].idx < Len(word_pronunciations[emitted[j].base_word]))

\* the output loop is under way: a line is written, keys remain, and the
\* input had several entries
C9_Witness ==
    /\ pc = "write"
    /\ outfile # <<>>
    /\ sorted_words # <<>>
    /\ Cardinality(EntryLines) >= 2

\* C10 as stated. No two output lines carry the same headword token.
C10_UniqueHeadwords ==
    \A i, j \in 1..Len(outfile) :
        i # j => HeadwordOf(outfile[i]) # HeadwordOf(outfile[j])

----------------------------------------------------------------------------
(* Properties of strip_stress, checked under StripSpec *)

\* C5 as stated. For every string, a second strip_stress changes nothing.
C5_IdempotentOnAnyString ==
    Len(results) = 2 => results[2] = results[1]

\* C5 as amended. For every phoneme token that does not end in two stress
\* digits, a second strip_stress changes nothing.
C5_IdempotentOnOneStressDigit ==
    (/\ Len(results) = 2
     /\ IsToken(phoneme)
     /\ ~(/\ Len(phoneme) >= 2
          /\ phoneme[Len(phoneme)] \in StressDigits
          /\ phoneme[Len(phoneme) - 1] \in StressDigits))
        => results[2] = results[1]

\* strip_stress has been applied twice to a token that ends in one stress
\* digit after another digit
C5_Witness ==
    /\ Len(results) = 2
    /\ IsToken(phoneme)
    /\ Len(phoneme) >= 2
    /\ phoneme[Len(phoneme)] \in StressDigits
    /\ phoneme[Len(phoneme) - 1] \in Digits \ StressDigits

\* C6. Stress stripping: a phoneme token that ends in 0, 1 or 2 loses exactly
\* that last character, any other token is returned unchanged, and no
\* character before the last is ever removed.
C6_StressStripping ==
    (Len(results) >= 1 /\ IsToken(phoneme)) =>
        LET n == Len(phoneme)
        IN  /\ (n > 0 /\ phoneme[n] \in StressDigits)
                  => results[1] = SubSeq(phoneme, 1, n - 1)
            /\ (n = 0 \/ phoneme[n] \notin StressDigits)
                  => results[1] = phoneme
            /\ n > 0 => SubSeq(results[1], 1, n - 1) = SubSeq(phoneme, 1, n - 1)

\* strip_stress has been applied to a token that ends in two stress digits
C6_Witness ==
    /\ Len(results) >= 1
    /\ IsToken(phoneme)
    /\ Len(phoneme) >= 3
    /\ phoneme[Len(phoneme)] \in StressDigits
    /\ phoneme[Len(phoneme) - 1] \in StressDigits
    /\ phoneme[1] = "A"

----------------------------------------------------------------------------
(* Properties of main, checked under MainSpec *)

\* C8. Input not found: when the input cannot be opened the process reports
\* an error on standard error and exits with a non-zero status, the output
\* destination is never opened and nothing is written; and the output
\* destination is opened only after the input has been opened.
C8_InputNotFound ==
    /\ input_path # "ok" =>
          /\ output_path # "opened"
          /\ outfile = <<>>
          /\ pc = "idle"
          /\ ~input_opened
          /\ main_pc \in {"start", "open_input", "exited"}
          /\ main_pc = "exited" =>
                /\ exit_status = 1
                /\ stderr # <<>>
                /\ stderr[Len(stderr)] \in {"Error: Input file not found", "Error: e"}
    /\ output_path = "opened" => input_opened
    /\ main_pc \in {"convert"} => input_opened

\* the process has exited on a missing input file, an output path having
\* been given
C8_Witness ==
    /\ main_pc = "exited"
    /\ input_path = "missing"
    /\ args.output
    /\ args.verbose

====
